---- MODULE Spec2Model ----
(***************************************************************************)
(* Model of src/main.py: FerretDetector (start / stop / consume /          *)
(* create_pagerduty_incident / __enter__ / __exit__) and main().           *)
(*                                                                         *)
(* Units.  confidence_elapsed is kept as a count of tick intervals of      *)
(* 1/max_fps seconds; with max_fps = 4 the interval 0.25 is an exact       *)
(* binary float, so n additions of 0.25 give exactly n/4 and the test      *)
(* "confidence_elapsed >= 10" is "count >= 10 * max_fps".                  *)
(* Thresholds and similarities are kept in thousandths (0.16 = 160).       *)
(***************************************************************************)
EXTENDS Integers, Sequences, FiniteSets

\* ---- program constants ----
max_fps == 4
HitThreshold == 15
WindowSeconds == 10

\* ---- bounds of the model ----
MaxTicks == 42
LongTicks == 68

\* ---- input domains ----
Handles == {"p1", "p2"}
Urls == {"", "rtsp://cam/live"}
ThresholdValues == {-1, 0, 160, 1000, 1500}
SimilarityValues == {155, 1000}
\* a config dict with every key main() prints, or with rtsp_url alone (the
\* constructor then takes its default threshold, 0.16)
DefaultThreshold == 160
Configs ==
  [rtsp_url : Urls, threshold : ThresholdValues, keys : {"full"}]
    \cup [rtsp_url : Urls, threshold : {DefaultThreshold}, keys : {"url_only"}]
Callers == {"main", "client"}

NoResult == [kind |-> "none", is_match |-> FALSE, similarity |-> 0]
\* the JSON body of an alert, lines 122-130; empty for every other call
NoPayload ==
  [summary |-> "", severity |-> "", source |-> "", routing_key |-> "",
   event_action |-> ""]
AlertPayload(summary, severity, source, routing_key) ==
  [summary |-> summary, severity |-> severity, source |-> source,
   routing_key |-> routing_key, event_action |-> "trigger"]
\* create_pagerduty_incident, line 119: the default of its routing_key parameter
DefaultRoutingKey == ""
PagerDutyUrl == "https://events.pagerduty.com/v2/enqueue"

NoCall == [op |-> "none", arg |-> "", payload |-> NoPayload]

VARIABLES
  caller,             \* who drives the detector: main() or a free API client
  config,             \* the config dict handed to the constructor
  pc,                 \* control location
  exc,                \* exception currently propagating / last seen by the client
  raised,             \* history: exceptions raised during the current run / call
  exit_code,          \* return value of main(), -1 until it returns
  rtsp_url,           \* self.rtsp_url
  threshold,          \* self.threshold
  pipeline_id,        \* self._pipeline_id
  confidence,         \* local of consume()
  confidence_elapsed, \* local of consume(), in tick intervals
  result,             \* local of consume(): the result pulled this iteration
  ext_call,           \* the external call made by the latest step
  started,            \* history: handle returned by start in this run / call
  terminated,         \* history: handles passed to terminate in this run / call
  tick,               \* history: non-empty results observed by this consume()
  positives,          \* history: matches observed by this consume()
  dispatches,         \* history: calls of create_pagerduty_incident by this consume()
  alerts_in_tick,     \* history: calls of create_pagerduty_incident in this tick
  elapsed_resets,     \* history: executions of line 110 by this consume()
  shadow_similarity,  \* second run: same is_match, another similarity
  shadow_confidence,
  shadow_elapsed,
  shadow_dispatches,
  streak_audit,       \* whether this run keeps the history of dry streaks
  dry_streak          \* history: latest consecutive matching ticks without a dispatch

vars == <<caller, config, pc, exc, raised, exit_code, rtsp_url, threshold,
          pipeline_id, confidence, confidence_elapsed, result, ext_call,
          started, terminated, tick, positives, dispatches, alerts_in_tick,
          elapsed_resets, shadow_similarity, shadow_confidence, shadow_elapsed,
          shadow_dispatches, streak_audit, dry_streak>>

detectorVars == <<rtsp_url, threshold, pipeline_id>>
windowVars == <<confidence, confidence_elapsed, result>>
historyVars == <<tick, positives, dispatches, alerts_in_tick, elapsed_resets, dry_streak>>
shadowVars == <<shadow_similarity, shadow_confidence, shadow_elapsed, shadow_dispatches>>
lifecycleHistory == <<started, terminated>>

\* ---------------------------------------------------------------------------
\* Pure fragments of the code
\* ---------------------------------------------------------------------------

\* variant: the range test of line 24 written with strict comparisons
ValidConfig_exclusive(url, thr) == url # "" /\ 0 < thr /\ thr < 1000

\* __init__, lines 21-25: the two validations
ValidConfig(url, thr) == url # "" /\ 0 <= thr /\ thr <= 1000

\* variant: the guard of line 50 never sees a running pipeline
is_running_never(pid) == FALSE

\* is_running, line 46
is_running(pid) == pid # ""

\* variant: a match adds two to the count
Counted_twice(conf, is_match, sim) == IF is_match THEN conf + 2 ELSE conf

\* variant: the count follows the similarity score instead of the match flag
Counted_by_score(conf, is_match, sim) == IF sim >= DefaultThreshold THEN conf + 1 ELSE conf

\* lines 88-94: is_match decides whether the count grows; similarity (line 89)
\* is rounded and printed, and read nowhere else
Counted(conf, is_match, sim) == IF is_match THEN conf + 1 ELSE conf

\* variant: the comparison of line 96 written with > instead of >=
ShouldFire_strict(conf) == conf > HitThreshold

\* line 96
ShouldFire(conf) == conf >= HitThreshold

\* variant: line 106 missing, the count survives the alert
AfterFire_keep(conf) == conf

\* line 106
AfterFire(conf) == 0

\* variant: line 111 executed before the comparison of line 109
WindowExpired_advanced(elapsed) == elapsed + 1 >= WindowSeconds * max_fps

\* lines 109-110: the comparison reads confidence_elapsed before line 111 advances it
WindowExpired(elapsed) == elapsed >= WindowSeconds * max_fps

\* variant: line 110 missing, the window never clears the count
AfterWindow_never(conf, elapsed) == conf


AfterWindow(conf, elapsed) == IF WindowExpired(elapsed) THEN 0 ELSE conf

\* lines 98-102: the alert consume() sends; it passes summary, severity and
\* source and no routing_key, so the default of line 119 is used
ConsumeAlert ==
  AlertPayload("Ferret has escaped!!!", "critical", "Front yard camera",
               DefaultRoutingKey)

\* line 111: confidence_elapsed += 1/max_fps; it is assigned nowhere else in the loop
Advance(elapsed) == elapsed + 1

\* variant: the except KeyboardInterrupt clause missing
ExitCode_always_error(e) == 1

\* main, lines 174-180: the value returned for the exception that left the with block
ExitCode(e) == IF e = "KeyboardInterrupt" THEN 0 ELSE 1

\* ---------------------------------------------------------------------------
\* Where a raised exception goes
\* ---------------------------------------------------------------------------
ConsumePcs == {"consume", "pull", "got", "trigger", "post", "window", "sleep"}

\* an exception raised inside the with body of main() runs __exit__; from a
\* method called by the client it returns to the client; the frame of
\* consume() is left, so its locals (and the history kept of them) are gone
RaiseInBody(e) ==
  /\ exc' = e
  /\ raised' = Append(raised, e)
  /\ pc' = IF caller = "main" THEN "exit" ELSE "idle"
  /\ confidence' = 0
  /\ confidence_elapsed' = 0
  /\ result' = NoResult
  /\ tick' = 0
  /\ positives' = 0
  /\ dispatches' = 0
  /\ alerts_in_tick' = 0
  /\ elapsed_resets' = 0
  /\ shadow_similarity' = 0
  /\ shadow_confidence' = 0
  /\ shadow_elapsed' = 0
  /\ shadow_dispatches' = 0
  /\ dry_streak' = 0

\* an exception raised by the constructor or by __enter__ skips __exit__
RaiseBeforeBody(e, clientPc) ==
  /\ exc' = e
  /\ raised' = Append(raised, e)
  /\ pc' = IF caller = "main" THEN "except" ELSE clientPc

Init ==
  /\ caller \in Callers
  /\ config \in Configs
  /\ caller = "client" => config.keys = "full"
  /\ pc = "begin"
  /\ exc = "none"
  /\ raised = <<>>
  /\ exit_code = -1
  /\ rtsp_url = ""
  /\ threshold = 0
  /\ pipeline_id = ""
  /\ confidence = 0
  /\ confidence_elapsed = 0
  /\ result = NoResult
  /\ ext_call = NoCall
  /\ started = ""
  /\ terminated = {}
  /\ tick = 0
  /\ positives = 0
  /\ dispatches = 0
  /\ alerts_in_tick = 0
  /\ elapsed_resets = 0
  /\ shadow_similarity = 0
  /\ shadow_confidence = 0
  /\ shadow_elapsed = 0
  /\ shadow_dispatches = 0
  /\ streak_audit = FALSE
  /\ dry_streak = 0

\* ---------------------------------------------------------------------------
\* FerretDetector.__init__
\* ---------------------------------------------------------------------------
ConstructOk ==
  /\ pc = "begin"
  /\ ValidConfig(config.rtsp_url, config.threshold)
  /\ rtsp_url' = config.rtsp_url
  /\ threshold' = config.threshold
  /\ pipeline_id' = ""
  /\ pc' = IF caller = "main" THEN "start" ELSE "idle"
  /\ ext_call' = NoCall
  /\ UNCHANGED <<caller, streak_audit, config, exc, raised, exit_code, windowVars,
                 lifecycleHistory, historyVars, shadowVars>>

ConstructFails ==
  /\ pc = "begin"
  /\ ~ValidConfig(config.rtsp_url, config.threshold)
  /\ RaiseBeforeBody("ValueError", "halt")
  /\ ext_call' = NoCall
  /\ UNCHANGED <<caller, streak_audit, config, exit_code, detectorVars, windowVars,
                 lifecycleHistory, historyVars, shadowVars>>

\* ---------------------------------------------------------------------------
\* The free client: calls start(), stop() or consume() in any order
\* ---------------------------------------------------------------------------
ClientCall ==
  /\ caller = "client"
  /\ pc = "idle"
  /\ pc' \in {"start", "stop", "consume"}
  /\ exc' = "none"
  /\ raised' = <<>>
  /\ started' = ""
  /\ terminated' = {}
  /\ ext_call' = NoCall
  /\ UNCHANGED <<caller, streak_audit, config, exit_code, detectorVars, windowVars,
                 historyVars, shadowVars>>

\* ---------------------------------------------------------------------------
\* FerretDetector.start (main reaches it through __enter__)
\* ---------------------------------------------------------------------------
StartAlreadyRunning ==
  /\ pc = "start"
  /\ is_running(pipeline_id)
  /\ RaiseBeforeBody("RuntimeError", "idle")
  /\ ext_call' = NoCall
  /\ UNCHANGED <<caller, streak_audit, config, exit_code, detectorVars, windowVars,
                 lifecycleHistory, historyVars, shadowVars>>

StartOk ==
  /\ pc = "start"
  /\ ~is_running(pipeline_id)
  /\ \E h \in Handles :
       /\ pipeline_id' = h
       /\ started' = h
  /\ ext_call' = [op |-> "startPipeline", arg |-> rtsp_url, payload |-> NoPayload]
  /\ pc' = IF caller = "main" THEN "body" ELSE "idle"
  /\ UNCHANGED <<caller, streak_audit, config, exc, raised, exit_code, rtsp_url, threshold,
                 windowVars, terminated, historyVars, shadowVars>>

\* variant: the handle is stored before the backend call has succeeded
StartFails_keeps_handle ==
  /\ pc = "start"
  /\ ~is_running(pipeline_id)
  /\ \E e \in {"BackendError", "KeyboardInterrupt"} : RaiseBeforeBody(e, "idle")
  /\ ext_call' = [op |-> "startPipeline", arg |-> rtsp_url, payload |-> NoPayload]
  /\ \E h \in Handles : pipeline_id' = h
  /\ UNCHANGED <<caller, streak_audit, config, exit_code, rtsp_url, threshold, windowVars,
                 lifecycleHistory, historyVars, shadowVars>>


StartFails ==
  /\ pc = "start"
  /\ ~is_running(pipeline_id)
  /\ \E e \in {"BackendError", "KeyboardInterrupt"} : RaiseBeforeBody(e, "idle")
  /\ ext_call' = [op |-> "startPipeline", arg |-> rtsp_url, payload |-> NoPayload]
  /\ UNCHANGED <<caller, streak_audit, config, exit_code, detectorVars, windowVars,
                 lifecycleHistory, historyVars, shadowVars>>

\* ---------------------------------------------------------------------------
\* main: the body of the with block before consume(), lines 168-171
\* ---------------------------------------------------------------------------
MainBody ==
  /\ pc = "body"
  /\ config.keys = "full"
  /\ pc' = "consume"
  /\ ext_call' = NoCall
  /\ UNCHANGED <<caller, streak_audit, config, exc, raised, exit_code, detectorVars,
                 windowVars, lifecycleHistory, historyVars, shadowVars>>

MainBodyKeyError ==
  /\ pc = "body"
  /\ config.keys # "full"
  /\ RaiseInBody("KeyError")
  /\ ext_call' = NoCall
  /\ UNCHANGED <<caller, streak_audit, config, exit_code, detectorVars, lifecycleHistory>>

\* variant: __exit__ returns without calling stop()
Exit_skip_stop ==
  /\ pc = "exit"
  /\ pc' = "except"
  /\ ext_call' = NoCall
  /\ UNCHANGED <<caller, streak_audit, config, exc, raised, exit_code, detectorVars,
                 windowVars, lifecycleHistory, historyVars, shadowVars>>

\* ---------------------------------------------------------------------------
\* FerretDetector.__exit__ and FerretDetector.stop
\* ---------------------------------------------------------------------------
Exit ==
  /\ pc = "exit"
  /\ pc' = "stop"
  /\ ext_call' = NoCall
  /\ UNCHANGED <<caller, streak_audit, config, exc, raised, exit_code, detectorVars,
                 windowVars, lifecycleHistory, historyVars, shadowVars>>

\* after stop() returns normally: __exit__ returns None, so the exception of
\* the with body keeps propagating; the client just gets control back
AfterStop == IF caller = "main" THEN "except" ELSE "idle"

StopIdle ==
  /\ pc = "stop"
  /\ pipeline_id = ""
  /\ pc' = AfterStop
  /\ ext_call' = NoCall
  /\ UNCHANGED <<caller, streak_audit, config, exc, raised, exit_code, detectorVars,
                 windowVars, lifecycleHistory, historyVars, shadowVars>>

StopOk ==
  /\ pc = "stop"
  /\ pipeline_id # ""
  /\ ext_call' = [op |-> "terminatePipeline", arg |-> pipeline_id, payload |-> NoPayload]
  /\ terminated' = terminated \cup {pipeline_id}
  /\ pipeline_id' = ""
  /\ pc' = AfterStop
  /\ UNCHANGED <<caller, streak_audit, config, exc, raised, exit_code, rtsp_url, threshold,
                 windowVars, started, historyVars, shadowVars>>

\* terminate_inference_pipeline raises: line 72 is not reached
StopFails ==
  /\ pc = "stop"
  /\ pipeline_id # ""
  /\ ext_call' = [op |-> "terminatePipeline", arg |-> pipeline_id, payload |-> NoPayload]
  /\ terminated' = terminated \cup {pipeline_id}
  /\ \E e \in {"BackendError", "KeyboardInterrupt"} :
       /\ exc' = e
       /\ raised' = Append(raised, e)
  /\ pc' = AfterStop
  /\ UNCHANGED <<caller, streak_audit, config, exit_code, detectorVars, windowVars,
                 started, historyVars, shadowVars>>

\* ---------------------------------------------------------------------------
\* main: the except clauses and the return, lines 174-180
\* ---------------------------------------------------------------------------
MainReturn ==
  /\ pc = "except"
  /\ exit_code' = ExitCode(exc)
  /\ pc' = "done"
  /\ ext_call' = NoCall
  /\ UNCHANGED <<caller, streak_audit, config, exc, raised, detectorVars, windowVars,
                 lifecycleHistory, historyVars, shadowVars>>

\* ---------------------------------------------------------------------------
\* FerretDetector.consume
\* ---------------------------------------------------------------------------
\* lines 77-79: the locals start at 0 on every call
ConsumeEnter ==
  /\ pc = "consume"
  /\ confidence' = 0
  /\ confidence_elapsed' = 0
  /\ result' = NoResult
  /\ tick' = 0
  /\ positives' = 0
  /\ dispatches' = 0
  /\ alerts_in_tick' = 0
  /\ elapsed_resets' = 0
  /\ shadow_similarity' = 0
  /\ shadow_confidence' = 0
  /\ shadow_elapsed' = 0
  /\ shadow_dispatches' = 0
  /\ dry_streak' = 0
  /\ pc' = "pull"
  /\ ext_call' = NoCall
  /\ UNCHANGED <<caller, streak_audit, config, exc, raised, exit_code, detectorVars,
                 lifecycleHistory>>

\* line 82: the backend answers with outputs == [], with an absent first
\* element, or with one outcome; the second run is handed the same is_match
\* and a similarity of its own
ConsumeResultWithin(limit) ==
  /\ pc = "pull"
  /\ ext_call' = [op |-> "consumeResult", arg |-> pipeline_id, payload |-> NoPayload]
  /\ \/ /\ \E k \in {"empty", "absent"} :
             result' = [kind |-> k, is_match |-> FALSE, similarity |-> 0]
        /\ shadow_similarity' = 0
     \/ /\ tick < limit
        /\ \E m \in BOOLEAN, s \in SimilarityValues :
             result' = [kind |-> "output", is_match |-> m, similarity |-> s]
        /\ shadow_similarity' \in SimilarityValues
  /\ pc' = "got"
  /\ UNCHANGED <<caller, streak_audit, config, exc, raised, exit_code, detectorVars,
                 confidence, confidence_elapsed, lifecycleHistory, historyVars,
                 shadow_confidence, shadow_elapsed, shadow_dispatches>>

ConsumeResult == ConsumeResultWithin(MaxTicks)

ConsumeResultFails ==
  /\ pc = "pull"
  /\ ext_call' = [op |-> "consumeResult", arg |-> pipeline_id, payload |-> NoPayload]
  /\ \E e \in {"BackendError", "KeyboardInterrupt"} : RaiseInBody(e)
  /\ UNCHANGED <<caller, streak_audit, config, exit_code, detectorVars, lifecycleHistory>>

\* variant: the continue of line 85 missing, an empty result still ages the window
SkipEmpty_ages_window ==
  /\ pc = "got"
  /\ result.kind # "output"
  /\ pc' = "window"
  /\ ext_call' = NoCall
  /\ UNCHANGED <<caller, streak_audit, config, exc, raised, exit_code, detectorVars,
                 windowVars, lifecycleHistory, historyVars, shadowVars>>

\* lines 84-85: nothing usable this iteration, pull again at once
SkipEmpty ==
  /\ pc = "got"
  /\ result.kind # "output"
  /\ pc' = "pull"
  /\ ext_call' = NoCall
  /\ UNCHANGED <<caller, streak_audit, config, exc, raised, exit_code, detectorVars,
                 windowVars, lifecycleHistory, historyVars, shadowVars>>

\* lines 87-94
Observe ==
  /\ pc = "got"
  /\ result.kind = "output"
  /\ confidence' = Counted(confidence, result.is_match, result.similarity)
  /\ shadow_confidence' = Counted(shadow_confidence, result.is_match, shadow_similarity)
  /\ tick' = tick + 1
  /\ positives' = IF result.is_match THEN positives + 1 ELSE positives
  /\ alerts_in_tick' = 0
  /\ dry_streak' = IF streak_audit /\ result.is_match THEN dry_streak + 1 ELSE 0
  /\ pc' = "trigger"
  /\ ext_call' = NoCall
  /\ UNCHANGED <<caller, streak_audit, config, exc, raised, exit_code, detectorVars,
                 confidence_elapsed, result, lifecycleHistory, dispatches,
                 elapsed_resets, shadow_similarity, shadow_elapsed,
                 shadow_dispatches>>

\* line 96; the second run takes its own decision, and its call is assumed
\* to have the outcome of the first run's call
Trigger ==
  /\ pc = "trigger"
  /\ pc' = IF ShouldFire(confidence) THEN "post" ELSE "window"
  /\ IF ShouldFire(shadow_confidence)
       THEN /\ shadow_dispatches' = shadow_dispatches + 1
            /\ shadow_confidence' = AfterFire(shadow_confidence)
       ELSE UNCHANGED <<shadow_dispatches, shadow_confidence>>
  /\ ext_call' = NoCall
  /\ UNCHANGED <<caller, streak_audit, config, exc, raised, exit_code, detectorVars,
                 windowVars, lifecycleHistory, historyVars, shadow_similarity,
                 shadow_elapsed>>

\* variant: the trigger also restarts the window clock
PostOk_restarts_window ==
  /\ pc = "post"
  /\ ext_call' = [op |-> "post", arg |-> PagerDutyUrl, payload |-> ConsumeAlert]
  /\ dispatches' = dispatches + 1
  /\ alerts_in_tick' = alerts_in_tick + 1
  /\ confidence' = AfterFire(confidence)
  /\ confidence_elapsed' = 0
  /\ dry_streak' = 0
  /\ pc' = "window"
  /\ UNCHANGED <<caller, streak_audit, config, exc, raised, exit_code, detectorVars,
                 result, lifecycleHistory, tick, positives,
                 elapsed_resets, shadowVars>>

\* lines 97-106 with create_pagerduty_incident: a 2xx answer; routing_key is
\* the default "" of line 119, consume() passes none
PostOk ==
  /\ pc = "post"
  /\ ext_call' = [op |-> "post", arg |-> PagerDutyUrl, payload |-> ConsumeAlert]
  /\ dispatches' = dispatches + 1
  /\ alerts_in_tick' = alerts_in_tick + 1
  /\ confidence' = AfterFire(confidence)
  /\ dry_streak' = 0
  /\ pc' = "window"
  /\ UNCHANGED <<caller, streak_audit, config, exc, raised, exit_code, detectorVars,
                 confidence_elapsed, result, lifecycleHistory, tick, positives,
                 elapsed_resets, shadowVars>>

\* requests.post raises (transport failure), raise_for_status raises (non-2xx),
\* or the call is interrupted: consume() has no handler, line 106 is not reached
PostFails ==
  /\ pc = "post"
  /\ ext_call' = [op |-> "post", arg |-> PagerDutyUrl, payload |-> ConsumeAlert]
  /\ \E e \in {"HTTPError", "ConnectionError", "KeyboardInterrupt"} : RaiseInBody(e)
  /\ UNCHANGED <<caller, streak_audit, config, exit_code, detectorVars, lifecycleHistory>>

\* lines 109-111
WindowStep ==
  /\ pc = "window"
  /\ confidence' = AfterWindow(confidence, confidence_elapsed)
  /\ confidence_elapsed' = Advance(confidence_elapsed)
  /\ elapsed_resets' = IF WindowExpired(confidence_elapsed)
                         THEN elapsed_resets + 1 ELSE elapsed_resets
  /\ shadow_confidence' = AfterWindow(shadow_confidence, shadow_elapsed)
  /\ shadow_elapsed' = Advance(shadow_elapsed)
  /\ pc' = "sleep"
  /\ ext_call' = NoCall
  /\ UNCHANGED <<caller, streak_audit, config, exc, raised, exit_code, detectorVars, result,
                 lifecycleHistory, tick, positives, dispatches, alerts_in_tick,
                 dry_streak, shadow_similarity, shadow_dispatches>>

\* line 113
Sleep ==
  /\ pc = "sleep"
  /\ pc' = "pull"
  /\ ext_call' = NoCall
  /\ UNCHANGED <<caller, streak_audit, config, exc, raised, exit_code, detectorVars,
                 windowVars, lifecycleHistory, historyVars, shadowVars>>

SleepInterrupted ==
  /\ pc = "sleep"
  /\ RaiseInBody("KeyboardInterrupt")
  /\ ext_call' = NoCall
  /\ UNCHANGED <<caller, streak_audit, config, exit_code, detectorVars, lifecycleHistory>>

Next ==
  \/ ConstructOk
  \/ ConstructFails
  \/ ClientCall
  \/ StartAlreadyRunning
  \/ StartOk
  \/ StartFails
  \/ MainBody
  \/ MainBodyKeyError
  \/ Exit
  \/ StopIdle
  \/ StopOk
  \/ StopFails
  \/ MainReturn
  \/ ConsumeEnter
  \/ ConsumeResult
  \/ ConsumeResultFails
  \/ SkipEmpty
  \/ Observe
  \/ Trigger
  \/ PostOk
  \/ PostFails
  \/ WindowStep
  \/ Sleep
  \/ SleepInterrupted

Spec == Init /\ [][Next]_vars

\* ---------------------------------------------------------------------------
\* The consume loop alone, followed for longer: main() with the config of
\* lines 183-188, after start() has returned and the with body has printed
\* its lines; this run keeps the history of dry streaks
\* ---------------------------------------------------------------------------
MainConfig == [rtsp_url |-> "rtsp://cam/live", threshold |-> DefaultThreshold, keys |-> "full"]

InitRunning ==
  /\ caller = "main"
  /\ config = MainConfig
  /\ pc = "consume"
  /\ exc = "none"
  /\ raised = <<>>
  /\ exit_code = -1
  /\ rtsp_url = MainConfig.rtsp_url
  /\ threshold = MainConfig.threshold
  /\ pipeline_id = "p1"
  /\ confidence = 0
  /\ confidence_elapsed = 0
  /\ result = NoResult
  /\ ext_call = NoCall
  /\ started = "p1"
  /\ terminated = {}
  /\ tick = 0
  /\ positives = 0
  /\ dispatches = 0
  /\ alerts_in_tick = 0
  /\ elapsed_resets = 0
  /\ shadow_similarity = 0
  /\ shadow_confidence = 0
  /\ shadow_elapsed = 0
  /\ shadow_dispatches = 0
  /\ streak_audit = TRUE
  /\ dry_streak = 0

ConsumeResultLong == ConsumeResultWithin(LongTicks)

NextRunning ==
  \/ ConsumeEnter
  \/ ConsumeResultLong
  \/ ConsumeResultFails
  \/ SkipEmpty
  \/ Observe
  \/ Trigger
  \/ PostOk
  \/ PostFails
  \/ WindowStep
  \/ Sleep
  \/ SleepInterrupted
  \/ Exit
  \/ StopOk
  \/ StopFails
  \/ MainReturn

SpecRunning == InitRunning /\ [][NextRunning]_vars

\* ---------------------------------------------------------------------------
\* Properties
\* ---------------------------------------------------------------------------
WindowTicks == WindowSeconds * max_fps

InConsume == pc \in ConsumePcs

\* matches among the outcomes of the ticks before the current one
PositivesBeforeThisTick == IF result.is_match THEN positives - 1 ELSE positives

\* C1: from a fresh window at 0.25 s per tick, the tick that brings the 15th
\* cumulative match before any elapsed-reset makes exactly one call of
\* create_pagerduty_incident and ends with the count at 0; no earlier tick
\* makes one.
C1_FifteenthMatchFiresOnce ==
  /\ (InConsume /\ positives < HitThreshold) => (dispatches = 0 /\ pc # "post")
  /\ (pc = "trigger" /\ result.is_match /\ positives = HitThreshold /\ elapsed_resets = 0)
       => confidence >= HitThreshold
  /\ (pc = "post" /\ positives = HitThreshold /\ elapsed_resets = 0)
       => (alerts_in_tick = 0 /\ dispatches = 0)
  /\ (pc \in {"window", "sleep"} /\ result.is_match /\ positives = HitThreshold
        /\ elapsed_resets = 0)
       => (alerts_in_tick = 1 /\ dispatches = 1 /\ confidence = 0)

C1_Witness ==
  /\ pc = "sleep"
  /\ tick = 15
  /\ positives = 15
  /\ alerts_in_tick = 1
  /\ dispatches = 1
  /\ confidence = 0

\* C2: an alert is dispatched in a tick only when the count, after that
\* tick's increment, is at least 15; fewer than 15 matches dispatch nothing;
\* the elapsed-reset step dispatches nothing; the number of dispatches never
\* exceeds the matches observed divided by 15.
C2_State ==
  /\ pc = "post" => confidence >= HitThreshold
  /\ InConsume => dispatches * HitThreshold <= positives
  /\ (InConsume /\ positives < HitThreshold /\ tick < WindowTicks) => dispatches = 0

C2_WindowStepSilent ==
  pc = "window" => (dispatches' = dispatches /\ ext_call'.op # "post")

C2_DispatchOnlyAtThreshold == []C2_State /\ [][C2_WindowStepSilent]_vars

C2_Witness ==
  /\ pc = "sleep"
  /\ positives = 2 * HitThreshold
  /\ dispatches = 2

C4_LoopSurvivesDeliveryFailure ==
  exc \in {"HTTPError", "ConnectionError"} => (InConsume /\ exit_code = -1)

\* C5: once main() has started the pipeline, every way of leaving the consume
\* loop runs stop(), so terminate is called with the stored handle before
\* main() returns.
C5_StopOnEveryExit ==
  /\ (caller = "main" /\ pc \in ConsumePcs \cup {"body", "exit", "stop"})
       => (pipeline_id # "" /\ pipeline_id = started)
  /\ (caller = "main" /\ pc \in {"except", "done"} /\ started # "")
       => started \in terminated

C5_Witness ==
  /\ caller = "main"
  /\ pc = "done"
  /\ started # ""
  /\ raised[1] \in {"HTTPError", "BackendError"}
  /\ terminated = {started}

\* C6: start() on a running detector fails with the already-running error,
\* makes no external call and leaves the stored handle as it was.
C6_Step ==
  (pc = "start" /\ pipeline_id # "")
    => /\ exc' = "RuntimeError"
       /\ ext_call'.op = "none"
       /\ pipeline_id' = pipeline_id

C6_SecondStartRejected == [][C6_Step]_vars

C6_Witness ==
  /\ caller = "client"
  /\ pc = "idle"
  /\ exc = "RuntimeError"
  /\ pipeline_id \in Handles

Cancelled == \E i \in 1..Len(raised) : raised[i] = "KeyboardInterrupt"

\* C7 as stated: main() returns 0 when KeyboardInterrupt was raised anywhere
\* in the scoped run, and 1 for every other failure.
C7_Original ==
  pc = "done" => exit_code = (IF Cancelled THEN 0 ELSE 1)

\* C7 (amended): main() returns 0 exactly when the exception that finally
\* leaves the with statement is KeyboardInterrupt, and 1 when it is any other
\* exception; an exception raised by stop() replaces the one that ended the
\* body, so a cancelled run whose stop() fails returns 1.
C7_LastExceptionDecides ==
  pc = "done" =>
    /\ Len(raised) >= 1
    /\ exit_code = (IF raised[Len(raised)] = "KeyboardInterrupt" THEN 0 ELSE 1)

C7_Witness ==
  /\ pc = "done"
  /\ raised = <<"KeyboardInterrupt", "BackendError">>
  /\ exit_code = 1

\* C8: an empty outputs array or an absent first element leaves the count and
\* the elapsed time unchanged, dispatches nothing, and the loop pulls again.
C8_Step ==
  (pc = "got" /\ result.kind \in {"empty", "absent"})
    => /\ pc' = "pull"
       /\ confidence' = confidence
       /\ confidence_elapsed' = confidence_elapsed
       /\ dispatches' = dispatches
       /\ tick' = tick
       /\ ext_call'.op # "post"

C8_EmptyResultIsSkipped == [][C8_Step]_vars

C8_Witness ==
  /\ pc = "pull"
  /\ result.kind = "absent"
  /\ confidence = 3
  /\ confidence_elapsed = 5

C10_SimilarityIsIgnored ==
  pc \in {"window", "sleep", "pull", "got"} =>
    /\ confidence = shadow_confidence
    /\ confidence_elapsed = shadow_elapsed
    /\ dispatches = shadow_dispatches

C10_Witness ==
  /\ pc = "sleep"
  /\ result.similarity # shadow_similarity
  /\ result.is_match
  /\ alerts_in_tick = 1
  /\ shadow_dispatches = 1

\* C11: construction fails with the invalid-configuration error exactly when
\* the source URL is empty or the threshold is outside [0.0, 1.0]; the
\* thresholds 0.0 and 1.0 with a non-empty URL are accepted; a freshly
\* constructed detector has an empty handle.
RejectedConfig ==
  config.rtsp_url = "" \/ config.threshold < 0 \/ config.threshold > 1000

ConstructionFailed == Len(raised) >= 1 /\ raised[1] = "ValueError"

C11_State == pc # "begin" => (ConstructionFailed <=> RejectedConfig)

C11_Step ==
  (pc = "begin" /\ exc' = "none")
    => /\ pipeline_id' = ""
       /\ rtsp_url' = config.rtsp_url
       /\ threshold' = config.threshold
       /\ ext_call'.op = "none"

C11_ConstructionValidates == []C11_State /\ [][C11_Step]_vars

C11_Witness ==
  /\ caller = "client"
  /\ pc = "idle"
  /\ raised = <<>>
  /\ rtsp_url # ""
  /\ threshold = 1000
  /\ pipeline_id = ""
  /\ started = ""

TickBoundary == pc \in {"sleep", "pull", "got"}

\* C12 as stated: in a tick in which the elapsed time, once advanced, is at
\* least 10 s, the count and the elapsed time are both reset to 0, so the
\* elapsed time is below 10 s at every tick boundary.
C12_State == TickBoundary => confidence_elapsed < WindowTicks

C12_Step ==
  (pc = "window" /\ confidence_elapsed + 1 >= WindowTicks)
    => (confidence' = 0 /\ confidence_elapsed' = 0)

C12_ElapsedResetsWithWindow == []C12_State /\ [][C12_Step]_vars

\* C13 as stated: the detector never becomes unable to alert: whenever 40
\* non-empty outcomes in a row are all matches and dispatch succeeds, at least
\* one alert is dispatched among those ticks; that is, the latest matching
\* ticks without a dispatch never number 40.
C13_FortyMatchesAlwaysAlert ==
  (streak_audit /\ pc = "sleep") => dry_streak < WindowTicks

\* C14 as stated: after stop() returns or fails the handle is empty; from
\* Idle it makes no external call; from Running it calls terminate with the
\* stored handle and clears the handle even when that call fails.
C14_Step ==
  pc = "stop"
    => /\ pipeline_id' = ""
       /\ pipeline_id = "" => (ext_call'.op = "none" /\ UNCHANGED detectorVars)
       /\ pipeline_id # "" => (ext_call'.op = "terminatePipeline"
                                 /\ ext_call'.arg = pipeline_id)

C14_StopAlwaysClearsHandle == [][C14_Step]_vars

\* C15: a trigger resets the count only: in a tick in which the alert fires
\* and the window has not expired, no step before the window step changes the
\* elapsed time, and the window step adds exactly one tick interval to it.
C15_Step ==
  /\ (pc \in {"got", "trigger", "post"} /\ pc' \in ConsumePcs)
       => confidence_elapsed' = confidence_elapsed
  /\ (pc = "post" /\ pc' = "window") => confidence' = 0
  /\ (pc = "window" /\ alerts_in_tick = 1 /\ confidence_elapsed < WindowTicks)
       => (confidence_elapsed' = confidence_elapsed + 1 /\ confidence' = 0)

C15_State ==
  (pc = "sleep" /\ alerts_in_tick = 1 /\ tick <= WindowTicks)
    => (confidence_elapsed = tick /\ elapsed_resets = 0)

C15_TriggerKeepsElapsed == []C15_State /\ [][C15_Step]_vars

C15_Witness ==
  /\ pc = "sleep"
  /\ tick = 2 * HitThreshold
  /\ alerts_in_tick = 1
  /\ dispatches = 2
  /\ confidence = 0
  /\ confidence_elapsed = 2 * HitThreshold

\* C16: the count stays within 0..15 at every point of consume() and within
\* 0..14 at every tick boundary; a step changes it only by +1 or to 0.
C16_State ==
  /\ confidence \in 0..HitThreshold
  /\ TickBoundary => confidence < HitThreshold

C16_Step ==
  \/ confidence' = confidence
  \/ confidence' = confidence + 1 /\ pc = "got" /\ result.is_match
  \/ confidence' = 0

C16_CountIsBounded == []C16_State /\ [][C16_Step]_vars

C16_Witness ==
  /\ pc = "post"
  /\ confidence = HitThreshold
  /\ tick = 20
  /\ dispatches = 0

Severities == {"critical", "error", "warning", "info"}

\* C17 as stated: the alert sent on a trigger carries the routing credential
\* configured for the detector in routing_key, with event_action "trigger"
\* and the summary, severity and source of the alert event.
C17_AlertCarriesRoutingKey ==
  ext_call.op = "post"
    => /\ ext_call.payload.routing_key # ""
       /\ ext_call.payload.event_action = "trigger"
       /\ ext_call.payload.summary # ""
       /\ ext_call.payload.severity \in Severities
       /\ ext_call.payload.source # ""

\* C18 as stated: every consumeResult call carries a non-empty handle
\* obtained from a start(), in every order of start(), stop() and consume().
C18_ConsumeNeedsRunning ==
  ext_call.op = "consumeResult" => ext_call.arg \in Handles

\* C19: when the backend call of start() fails the handle stays empty and a
\* later start() is not rejected; in main() a run whose start failed calls
\* neither terminate nor consumeResult.
C19_Step ==
  /\ (pc = "start" /\ pipeline_id = "" /\ exc' # "none")
       => (pipeline_id' = "" /\ started' = "")
  /\ (pc = "start" /\ pipeline_id = "") => exc' # "RuntimeError"

C19_State ==
  (caller = "main" /\ started = "")
    => /\ pc \notin ConsumePcs \cup {"body", "exit", "stop"}
       /\ terminated = {}
       /\ ext_call.op \notin {"terminatePipeline", "consumeResult"}
       /\ pipeline_id = ""

C19_FailedStartStaysIdle == []C19_State /\ [][C19_Step]_vars

C19_Witness ==
  /\ caller = "main"
  /\ pc = "done"
  /\ raised = <<"BackendError">>
  /\ started = ""
  /\ pipeline_id = ""
  /\ terminated = {}
  /\ exit_code = 1

====
